---- MODULE Spec2Model ----
(***************************************************************************)
(* State-machine model of the TCP chat server of src/main.go: the accept   *)
(* loop (startTCP), one controller per connection (handleClient with its   *)
(* read loop receiveMessagesFromClient), one outbound task per session     *)
(* (sendMessagesToClient) and the fan-out (broadcast).                     *)
(*                                                                         *)
(* Strings are sequences of tokens: a token is a word or a single space,   *)
(* so that TrimSpace / HasPrefix / TrimPrefix are computed, not assumed.   *)
(* Formatted lines (fmt.Sprintf) are records [kind, a, b]; the timestamp   *)
(* of a chat line is left out (no statement checked here reads it).        *)
(* logActivity only writes the log file and is not part of the state.      *)
(***************************************************************************)
EXTENDS Integers, Sequences, FiniteSets, TLC

\* ------------------------------------------------------ program constants
MaxClients == 2

\* ---------------------------------------------------------------- bounds
MaxLines == 2       \* lines the clients type in the chat, all sessions together
MaxFaults == 1      \* connections whose far end stalls or goes away

\* Connections that reach the listener: as many as the capacity in the chat
\* scenarios (Spec), one more in the capacity scenarios (SpecCap).
NConn == MaxClients
NConnCap == MaxClients + 1

Conns == 1..NConnCap
NoLock == 0
ShutdownId == -1

SP == " "
INFO == <<"INFO">>
EOF == <<"EOF">>      \* a Read that returns an error

\* What the client of connection c may type at the name prompt: the names
\* are interchangeable, so the k-th connection picks among the first k.
NameInputs == << <<"A">>, <<"B">>, <<"C", SP>>, <<"D">> >>
HandshakeInputs(c) == {NameInputs[i] : i \in 1..c} \cup {<<SP>>}
\* What a client may type once in the chat.
LoopInputs ==
    {<<"hi">>, <<"/exit">>, <<"/name", SP, "A">>, <<"/name", SP, "Z">>, <<"/name", SP>>}

VARIABLES
    apc,          \* startTCP: position of the accept loop
    arrivals,     \* connections that will still reach the listener
    nconn,        \* connections accepted so far
    fullAtAccept, \* history: len(s.Clients) >= MaxClients when c was accepted
    pc,           \* handleClient / receiveMessagesFromClient: position per connection
    uname,        \* handleClient's local username
    cuser,        \* client.Username
    cur,          \* the trimmed message, or newName, being processed
    Clients,      \* s.Clients : username -> *Client (the connection id)
    Messages,     \* s.Messages
    ClientsLock,  \* holder of s.ClientsLock
    MsgLock,      \* holder of s.MsgLock
    bmsg,         \* broadcast: argument message
    bsender,      \* broadcast: argument sender
    ridx,         \* history: length of the connection's output when its replay ended
    stask,        \* sendMessagesToClient: position per session
    held,         \* sendMessagesToClient: msg received from client.Out
    wire,         \* everything written to the connection
    closed,       \* conn.Close() was called
    lines,        \* lines the clients will still type in the chat
    peer,         \* the far end of the connection: open, stalled or gone
    spc,          \* Shutdown: position
    stodo         \* Shutdown: connections still to close

vars == <<apc, arrivals, nconn, fullAtAccept, pc, uname, cuser, cur, Clients, Messages,
          ClientsLock, MsgLock, bmsg, bsender, ridx,
          stask, held, wire, closed, lines, peer, spc, stodo>>

\* ------------------------------------------------------------- strings
RECURSIVE TrimLeft(_)
TrimLeft(s) == IF s # <<>> /\ Head(s) = SP THEN TrimLeft(Tail(s)) ELSE s

RECURSIVE TrimRight(_)
TrimRight(s) ==
    IF s # <<>> /\ s[Len(s)] = SP THEN TrimRight(SubSeq(s, 1, Len(s) - 1)) ELSE s

TrimSpace(s) == TrimRight(TrimLeft(s))

HasPrefix(s, p) == Len(s) >= Len(p) /\ SubSeq(s, 1, Len(p)) = p

TrimPrefix(s, p) == IF HasPrefix(s, p) THEN SubSeq(s, Len(p) + 1, Len(s)) ELSE s

NameCmd == <<"/name", SP>>
ExitCmd == <<"/exit">>

\* ------------------------------------------------------ formatted lines
Line(kind, a, b) == [kind |-> kind, a |-> a, b |-> b]
NoMsg == Line("none", <<>>, <<>>)

Logo == Line("logo", <<>>, <<>>)
Prompt == Line("prompt", <<>>, <<>>)
FullLine == Line("full", <<>>, <<>>)
InvalidLine == Line("invalid", <<>>, <<>>)
TakenLine == Line("taken", <<>>, <<>>)
RenameInvalidLine == Line("rename_invalid", <<>>, <<>>)
RenameTakenLine == Line("rename_taken", <<>>, <<>>)
JoinNotice(u) == Line("join", u, <<>>)
LeaveNotice(u) == Line("leave", u, <<>>)
RenameNotice(old, new) == Line("rename", old, new)
ChatLine(author, content) == Line("chat", author, content)
FormatMessage(m) == ChatLine(m.Client, m.Content)

\* ---------------------------------------------------------- the map
Len_Clients == Cardinality(DOMAIN Clients)

\* a lookup that never finds the name
Exists_Never(u) == FALSE

\* _, exists := s.Clients[u]
Exists(u) == u \in DOMAIN Clients

\* an insertion that stores the session under every key of the map
MapPut_Shared(m, u, c) == [k \in DOMAIN m \cup {u} |-> c]

\* s.Clients[u] = c
MapPut(m, u, c) == [k \in DOMAIN m \cup {u} |-> IF k = u THEN c ELSE m[k]]

\* a delete that leaves the entry in the map
MapDelete_Keep(m, u) == m

\* delete(s.Clients, u)
MapDelete(m, u) == [k \in DOMAIN m \ {u} |-> m[k]]

Registered == {Clients[k] : k \in DOMAIN Clients}

\* conn.Read and conn.Write return an error: the connection was closed
\* here, or the far end is gone
ConnDead(c) == closed[c] \/ peer[c] = "gone"

\* conn.Write returns at all: no deadline is set on any connection, so a
\* write to a far end that has stopped reading does not return
CanWrite(c) == peer[c] # "stalled"

\* a write that puts the new lines before what was written earlier
ConnWrite_Front(w, c, ls) == IF ConnDead(c) THEN w ELSE [w EXCEPT ![c] = ls \o @]

\* conn.Write: the error of a failed write is ignored
ConnWrite(w, c, ls) == IF ConnDead(c) THEN w ELSE [w EXCEPT ![c] = @ \o ls]

\* ------------------------------------------------------------------ Init
InitServer ==
    /\ apc = "check"
    /\ nconn = 0
    /\ fullAtAccept = [c \in Conns |-> FALSE]
    /\ pc = [c \in Conns |-> "idle"]
    /\ uname = [c \in Conns |-> <<>>]
    /\ cuser = [c \in Conns |-> <<>>]
    /\ cur = [c \in Conns |-> <<>>]
    /\ Clients = [k \in {} |-> 0]
    /\ Messages = <<>>
    /\ ClientsLock = NoLock
    /\ MsgLock = NoLock
    /\ bmsg = [c \in Conns |-> NoMsg]
    /\ bsender = [c \in Conns |-> <<>>]
    /\ ridx = [c \in Conns |-> 0]
    /\ stask = [c \in Conns |-> "none"]
    /\ held = [c \in Conns |-> NoMsg]
    /\ wire = [c \in Conns |-> <<>>]
    /\ closed = [c \in Conns |-> FALSE]
    /\ peer = [c \in Conns |-> "open"]
    /\ spc = "idle"
    /\ stodo = {}

Init ==
    /\ InitServer
    /\ arrivals = NConn
    /\ lines = MaxLines

\* one connection more than the capacity; the clients only join and leave
InitCap ==
    /\ InitServer
    /\ arrivals = NConnCap
    /\ lines = 0

\* ------------------------------------------------------------ startTCP
AtCapacity == Len_Clients >= MaxClients - 1

\* the test at the top of the for loop (the map is read without the lock)
AcceptCheck ==
    /\ apc = "check"
    /\ apc' = IF AtCapacity THEN "reject" ELSE "accept"
    /\ UNCHANGED peer
    /\ UNCHANGED <<arrivals, nconn, fullAtAccept, pc, uname, cuser, cur, Clients, Messages,
                   ClientsLock, MsgLock, bmsg, bsender, ridx, stask, held, wire,
                   closed, lines, spc, stodo>>

\* listener.Accept() returns a connection; go s.handleClient(conn)
AcceptServe ==
    /\ apc = "accept"
    /\ arrivals > 0
    /\ arrivals' = arrivals - 1
    /\ nconn' = nconn + 1
    /\ fullAtAccept' = [fullAtAccept EXCEPT ![nconn + 1] = (Len_Clients >= MaxClients)]
    /\ pc' = [pc EXCEPT ![nconn + 1] = "handshake"]
    /\ apc' = "check"
    /\ UNCHANGED peer
    /\ UNCHANGED <<uname, cuser, cur, Clients, Messages, ClientsLock, MsgLock,
                   bmsg, bsender, ridx, stask, held,
                   wire, closed, lines, spc, stodo>>

\* listener.Accept() in the "max clients" branch: write the line, close
AcceptReject ==
    /\ apc = "reject"
    /\ arrivals > 0
    /\ arrivals' = arrivals - 1
    /\ nconn' = nconn + 1
    /\ fullAtAccept' = [fullAtAccept EXCEPT ![nconn + 1] = (Len_Clients >= MaxClients)]
    /\ wire' = [wire EXCEPT ![nconn + 1] = <<FullLine>>]
    /\ closed' = [closed EXCEPT ![nconn + 1] = TRUE]
    /\ pc' = [pc EXCEPT ![nconn + 1] = "refused"]
    /\ apc' = "check"
    /\ UNCHANGED peer
    /\ UNCHANGED <<uname, cuser, cur, Clients, Messages, ClientsLock, MsgLock,
                   bmsg, bsender, ridx, stask, held,
                   lines, spc, stodo>>

\* -------------------------------------------------------- handleClient
\* Logo and prompt are written, then the name is read (lines 158-172).
Handshake(c) ==
    /\ pc[c] = "handshake"
    /\ CanWrite(c)
    /\ \E raw \in (IF peer[c] = "gone" THEN {} ELSE HandshakeInputs(c)) \cup {EOF} :
         LET username == TrimSpace(raw) IN
         IF raw = EOF
         THEN /\ wire' = ConnWrite(wire, c, <<Logo, Prompt>>)
              /\ closed' = [closed EXCEPT ![c] = TRUE]
              /\ pc' = [pc EXCEPT ![c] = "done"]
              /\ UNCHANGED <<uname, cuser>>
         ELSE IF username = <<>>
         THEN /\ wire' = ConnWrite(wire, c, <<Logo, Prompt, InvalidLine>>)
              /\ closed' = [closed EXCEPT ![c] = TRUE]
              /\ pc' = [pc EXCEPT ![c] = "done"]
              /\ UNCHANGED <<uname, cuser>>
         ELSE /\ wire' = ConnWrite(wire, c, <<Logo, Prompt>>)
              /\ uname' = [uname EXCEPT ![c] = username]
              /\ cuser' = [cuser EXCEPT ![c] = username]
              /\ pc' = [pc EXCEPT ![c] = "register"]
              /\ UNCHANGED closed
    /\ UNCHANGED peer
    /\ UNCHANGED <<apc, arrivals, nconn, fullAtAccept, cur, Clients, Messages, ClientsLock,
                   MsgLock, bmsg, bsender, ridx, stask,
                   held, lines, spc, stodo>>

\* an insertion that overwrites the entry of a name already present
RegisterRefused_Never(u) == FALSE

\* the test made under the lock before the insertion (line 183)
RegisterRefused(u) == Exists(u)

\* Lock; exists ? (Unlock; write; return) : (insert; Unlock)  (lines 182-193)
Register(c) ==
    /\ pc[c] = "register"
    /\ ClientsLock = NoLock
    /\ IF RegisterRefused(uname[c])
       THEN /\ CanWrite(c)
            /\ wire' = ConnWrite(wire, c, <<TakenLine>>)
            /\ closed' = [closed EXCEPT ![c] = TRUE]
            /\ pc' = [pc EXCEPT ![c] = "done"]
            /\ UNCHANGED <<Clients, bmsg, bsender>>
       ELSE /\ Clients' = MapPut(Clients, uname[c], c)
            /\ bmsg' = [bmsg EXCEPT ![c] = JoinNotice(uname[c])]
            /\ bsender' = [bsender EXCEPT ![c] = INFO]
            /\ pc' = [pc EXCEPT ![c] = "join_bc"]
            /\ UNCHANGED <<wire, closed>>
    /\ UNCHANGED peer
    /\ UNCHANGED <<apc, arrivals, nconn, fullAtAccept, uname, cuser, cur, Messages,
                   ClientsLock, MsgLock, ridx, stask,
                   held, lines, spc, stodo>>

\* ----------------------------------------------------------- broadcast
BcPcs == {"join_bc", "chat_bc", "rename_bc", "leave_bc"}

\* broadcast without the test of line 296
Skipped_Nobody(d, sender) == FALSE

\* if client.Username == sender { continue }  (line 296)
Skipped(d, sender) == cuser[d] = sender

\* a channel with a buffer takes the value with no receiver waiting
CanReceive_Buffered(d) == stask[d] \in {"none", "spawned", "recv"}

\* case client.Out <- message: an unbuffered channel takes the value only
\* when its receiver is waiting in the range loop (lines 178, 219, 300)
CanReceive(d) == stask[d] = "recv"

\* the sessions the range loop offers the message to
Recipients(sender) == {d \in Registered : ~Skipped(d, sender)}

\* those whose channel takes it; the others are logged as slow and skipped
Takers(sender) == {d \in Recipients(sender) : CanReceive(d)}

\* where the caller goes on after broadcast returns
AfterBroadcast(p) ==
    CASE p = "join_bc" -> "replay"
      [] p = "chat_bc" -> "read"
      [] p = "rename_bc" -> "read"     \* logActivity; Unlock; continue
      [] p = "leave_bc" -> "done"      \* logActivity; deferred conn.Close()

\* Lock; the range loop; deferred Unlock (lines 291-305).  The map cannot
\* change while the lock is held, so the critical section is one step.
Broadcast(c) ==
    /\ pc[c] \in BcPcs
    /\ ClientsLock = NoLock
    /\ stask' = [d \in Conns |-> IF d \in Takers(bsender[c]) THEN "write" ELSE stask[d]]
    /\ held' = [d \in Conns |-> IF d \in Takers(bsender[c]) THEN bmsg[c] ELSE held[d]]
    /\ bmsg' = [bmsg EXCEPT ![c] = NoMsg]
    /\ bsender' = [bsender EXCEPT ![c] = <<>>]
    /\ pc' = [pc EXCEPT ![c] = AfterBroadcast(pc[c])]
    /\ closed' = [closed EXCEPT ![c] = IF pc[c] = "leave_bc" THEN TRUE ELSE @]
    /\ UNCHANGED peer
    /\ UNCHANGED <<apc, arrivals, nconn, fullAtAccept, uname, cuser, cur, Clients, Messages,
                   ClientsLock, MsgLock, ridx, wire, lines, spc, stodo>>

\* ------------------------------------------------------ history replay
\* s.MsgLock.Lock() before the replay loop (line 196)
ReplayLock(c) ==
    /\ pc[c] = "replay"
    /\ MsgLock = NoLock
    /\ MsgLock' = c
    /\ pc' = [pc EXCEPT ![c] = "replaying"]
    /\ UNCHANGED peer
    /\ UNCHANGED <<apc, arrivals, nconn, fullAtAccept, uname, cuser, cur, Clients, Messages,
                   ClientsLock, bmsg, bsender, ridx, stask, held, wire, closed,
                   lines, spc, stodo>>

\* the history written last message first
ReplayLine_Reversed(i) == FormatMessage(Messages[Len(Messages) + 1 - i])

\* the line written for the i-th iteration of range s.Messages (line 198)
ReplayLine(i) == FormatMessage(Messages[i])

\* the lines the replay loop writes, in the order of the loop
ReplayLines == [i \in 1..Len(Messages) |-> ReplayLine(i)]

\* the conn.Write calls of the loop with MsgLock held; Unlock;
\* go s.sendMessagesToClient(client)  (lines 197-203)
Replay(c) ==
    /\ pc[c] = "replaying"
    /\ ReplayLines = <<>> \/ CanWrite(c)
    /\ wire' = ConnWrite(wire, c, ReplayLines)
    /\ ridx' = [ridx EXCEPT ![c] = Len(wire'[c])]
    /\ MsgLock' = NoLock
    /\ stask' = [stask EXCEPT ![c] = "spawned"]
    /\ pc' = [pc EXCEPT ![c] = "read"]
    /\ UNCHANGED peer
    /\ UNCHANGED <<apc, arrivals, nconn, fullAtAccept, uname, cuser, cur, Clients, Messages,
                   ClientsLock, bmsg, bsender, held, closed, lines, spc, stodo>>

\* ------------------------------------------- receiveMessagesFromClient
\* client.Conn.Read and the dispatch of the trimmed line (lines 231-244, 273)
Read(c) ==
    /\ pc[c] = "read"
    /\ \E raw \in (IF ConnDead(c) \/ lines = 0 THEN {} ELSE LoopInputs) \cup {EOF} :
         LET message == TrimSpace(raw)
             newName == TrimSpace(TrimPrefix(message, NameCmd))
         IN
         /\ lines' = IF raw = EOF THEN lines ELSE lines - 1
         /\ IF raw = EOF
            THEN /\ pc' = [pc EXCEPT ![c] = "unregister"]
                 /\ UNCHANGED <<cur, wire>>
            ELSE IF HasPrefix(message, NameCmd)
            THEN IF newName = <<>>
                 THEN /\ CanWrite(c)
                      /\ wire' = ConnWrite(wire, c, <<RenameInvalidLine>>)
                      /\ UNCHANGED <<pc, cur>>
                 ELSE /\ cur' = [cur EXCEPT ![c] = newName]
                      /\ pc' = [pc EXCEPT ![c] = "rename"]
                      /\ UNCHANGED wire
            ELSE IF message = ExitCmd
            THEN /\ cur' = [cur EXCEPT ![c] = message]
                 /\ pc' = [pc EXCEPT ![c] = "unregister"]
                 /\ UNCHANGED wire
            ELSE /\ cur' = [cur EXCEPT ![c] = message]
                 /\ pc' = [pc EXCEPT ![c] = "append"]
                 /\ UNCHANGED wire
    /\ UNCHANGED peer
    /\ UNCHANGED <<apc, arrivals, nconn, fullAtAccept, uname, cuser, Clients, Messages,
                   ClientsLock, MsgLock, bmsg, bsender, ridx, stask, held, closed, spc, stodo>>

\* Lock; the name is taken, or the entry is moved; the lock stays held
\* (lines 247-260)
Rename(c) ==
    /\ pc[c] = "rename"
    /\ ClientsLock = NoLock
    /\ ClientsLock' = c
    /\ IF Exists(cur[c])
       THEN /\ pc' = [pc EXCEPT ![c] = "rename_taken"]
            /\ UNCHANGED <<Clients, cuser, cur, bmsg, bsender>>
       ELSE /\ Clients' = MapPut(MapDelete(Clients, cuser[c]), cur[c], c)
            /\ cuser' = [cuser EXCEPT ![c] = cur[c]]
            /\ bmsg' = [bmsg EXCEPT ![c] = RenameNotice(cuser[c], cur[c])]
            /\ bsender' = [bsender EXCEPT ![c] = INFO]
            /\ cur' = [cur EXCEPT ![c] = <<>>]
            /\ pc' = [pc EXCEPT ![c] = "rename_bc"]
    /\ UNCHANGED peer
    /\ UNCHANGED <<apc, arrivals, nconn, fullAtAccept, uname, Messages, MsgLock,
                   ridx, stask, held, wire, closed, lines, spc, stodo>>

\* the inline reply written with the lock held, then Unlock (lines 251-253)
RenameTaken(c) ==
    /\ pc[c] = "rename_taken"
    /\ CanWrite(c)
    /\ wire' = ConnWrite(wire, c, <<RenameTakenLine>>)
    /\ ClientsLock' = NoLock
    /\ cur' = [cur EXCEPT ![c] = <<>>]
    /\ pc' = [pc EXCEPT ![c] = "read"]
    /\ UNCHANGED peer
    /\ UNCHANGED <<apc, arrivals, nconn, fullAtAccept, uname, cuser, Clients, Messages,
                   MsgLock, bmsg, bsender, ridx, stask,
                   held, closed, lines, spc, stodo>>

\* a Message appended without the text of the line
NewMessage_NoContent(c) == [Client |-> cuser[c], Content |-> <<>>]

\* the Message appended for a chat line (line 279)
NewMessage(c) == [Client |-> cuser[c], Content |-> cur[c]]

\* MsgLock.Lock; append; Unlock; format the line for broadcast (lines 278-285)
AppendMessage(c) ==
    /\ pc[c] = "append"
    /\ MsgLock = NoLock
    /\ Messages' = Append(Messages, NewMessage(c))
    /\ bmsg' = [bmsg EXCEPT ![c] = ChatLine(cuser[c], cur[c])]
    /\ bsender' = [bsender EXCEPT ![c] = cuser[c]]
    /\ cur' = [cur EXCEPT ![c] = <<>>]
    /\ pc' = [pc EXCEPT ![c] = "chat_bc"]
    /\ UNCHANGED peer
    /\ UNCHANGED <<apc, arrivals, nconn, fullAtAccept, uname, cuser, Clients, ClientsLock,
                   MsgLock, ridx, stask, held, wire,
                   closed, lines, spc, stodo>>

\* after the read loop: Lock; delete(s.Clients, username); Unlock (lines 209-213)
Unregister(c) ==
    /\ pc[c] = "unregister"
    /\ ClientsLock = NoLock
    /\ Clients' = MapDelete(Clients, uname[c])
    /\ bmsg' = [bmsg EXCEPT ![c] = LeaveNotice(uname[c])]
    /\ bsender' = [bsender EXCEPT ![c] = INFO]
    /\ pc' = [pc EXCEPT ![c] = "leave_bc"]
    /\ UNCHANGED peer
    /\ UNCHANGED <<apc, arrivals, nconn, fullAtAccept, uname, cuser, cur, Messages,
                   ClientsLock, MsgLock, ridx, stask,
                   held, wire, closed, lines, spc, stodo>>

\* ------------------------------------------------- sendMessagesToClient
\* the goroutine reaches its first receive on client.Out (line 219)
SenderStart(c) ==
    /\ stask[c] = "spawned"
    /\ stask' = [stask EXCEPT ![c] = "recv"]
    /\ UNCHANGED peer
    /\ UNCHANGED <<apc, arrivals, nconn, fullAtAccept, pc, uname, cuser, cur, Clients,
                   Messages, ClientsLock, MsgLock, bmsg, bsender,
                   ridx, held, wire, closed, lines, spc, stodo>>

\* client.Conn.Write(msg): back to the receive, or return on error
\* (lines 220-223)
SenderWrite(c) ==
    /\ stask[c] = "write"
    /\ CanWrite(c)
    /\ wire' = ConnWrite(wire, c, <<held[c]>>)
    /\ stask' = [stask EXCEPT ![c] = IF ConnDead(c) THEN "done" ELSE "recv"]
    /\ held' = [held EXCEPT ![c] = NoMsg]
    /\ UNCHANGED peer
    /\ UNCHANGED <<apc, arrivals, nconn, fullAtAccept, pc, uname, cuser, cur, Clients,
                   Messages, ClientsLock, MsgLock, bmsg, bsender,
                   ridx, closed, lines, spc, stodo>>

\* ------------------------------------------------------------ Shutdown
\* Server.Shutdown is called by the tests and defined nowhere in the
\* sources; it is modelled on the description: take the Registry lock,
\* close each session's connection, release the lock.
ShutdownCall ==
    /\ spc = "idle"
    /\ spc' = "lock"
    /\ UNCHANGED peer
    /\ UNCHANGED <<apc, arrivals, nconn, fullAtAccept, pc, uname, cuser, cur, Clients,
                   Messages, ClientsLock, MsgLock, bmsg, bsender,
                   ridx, stask, held, wire, closed, lines, stodo>>

ShutdownLock ==
    /\ spc = "lock"
    /\ ClientsLock = NoLock
    /\ ClientsLock' = ShutdownId
    /\ stodo' = Registered
    /\ spc' = "closing"
    /\ UNCHANGED peer
    /\ UNCHANGED <<apc, arrivals, nconn, fullAtAccept, pc, uname, cuser, cur, Clients,
                   Messages, MsgLock, bmsg, bsender, ridx, stask, held, wire, closed, lines>>

ShutdownClose ==
    /\ spc = "closing"
    /\ \E d \in stodo :
         /\ closed' = [closed EXCEPT ![d] = TRUE]
         /\ stodo' = stodo \ {d}
    /\ UNCHANGED peer
    /\ UNCHANGED <<apc, arrivals, nconn, fullAtAccept, pc, uname, cuser, cur, Clients,
                   Messages, ClientsLock, MsgLock, bmsg, bsender,
                   ridx, stask, held, wire, lines, spc>>

ShutdownUnlock ==
    /\ spc = "closing"
    /\ stodo = {}
    /\ ClientsLock' = NoLock
    /\ spc' = "done"
    /\ UNCHANGED peer
    /\ UNCHANGED <<apc, arrivals, nconn, fullAtAccept, pc, uname, cuser, cur, Clients,
                   Messages, MsgLock, bmsg, bsender, ridx, stask, held, wire, closed, lines, stodo>>

\* ------------------------------------------------------- the far end
\* the states of a connection in which its far end can still change
Serving(c) == pc[c] \notin {"idle", "refused", "done"}

\* the client stops reading: from now on a conn.Write does not return
Stall(c) ==
    /\ Serving(c)
    /\ peer[c] = "open"
    /\ Cardinality({d \in Conns : peer[d] # "open"}) < MaxFaults
    /\ peer' = [peer EXCEPT ![c] = "stalled"]
    /\ UNCHANGED <<apc, arrivals, nconn, fullAtAccept, pc, uname, cuser, cur, Clients,
                   Messages, ClientsLock, MsgLock, bmsg, bsender,
                   ridx, stask, held, wire, closed, lines, spc, stodo>>

\* the client closes or resets the connection: from now on conn.Read and
\* conn.Write return an error
Hangup(c) ==
    /\ Serving(c)
    /\ peer[c] = "open"
    /\ Cardinality({d \in Conns : peer[d] # "open"}) < MaxFaults
    /\ peer' = [peer EXCEPT ![c] = "gone"]
    /\ UNCHANGED <<apc, arrivals, nconn, fullAtAccept, pc, uname, cuser, cur, Clients,
                   Messages, ClientsLock, MsgLock, bmsg, bsender,
                   ridx, stask, held, wire, closed, lines, spc, stodo>>

\* ------------------------------------------------------- specifications
Next ==
    \/ AcceptCheck
    \/ AcceptServe
    \/ AcceptReject
    \/ \E c \in Conns : Handshake(c)
    \/ \E c \in Conns : Register(c)
    \/ \E c \in Conns : Broadcast(c)
    \/ \E c \in Conns : ReplayLock(c)
    \/ \E c \in Conns : Replay(c)
    \/ \E c \in Conns : Read(c)
    \/ \E c \in Conns : Rename(c)
    \/ \E c \in Conns : RenameTaken(c)
    \/ \E c \in Conns : AppendMessage(c)
    \/ \E c \in Conns : Unregister(c)
    \/ \E c \in Conns : SenderStart(c)
    \/ \E c \in Conns : SenderWrite(c)

\* the server as the sources have it
Spec == Init /\ [][Next]_vars

NextShutdown ==
    \/ Next
    \/ ShutdownCall
    \/ ShutdownLock
    \/ ShutdownClose
    \/ ShutdownUnlock

\* the server with the Shutdown operation of the tests
SpecShutdown == Init /\ [][NextShutdown]_vars

\* the actions of clients that join and leave without typing a line
NextCap ==
    \/ AcceptCheck
    \/ AcceptServe
    \/ AcceptReject
    \/ \E c \in Conns : Handshake(c)
    \/ \E c \in Conns : Register(c)
    \/ \E c \in Conns : Broadcast(c)
    \/ \E c \in Conns : ReplayLock(c)
    \/ \E c \in Conns : Replay(c)
    \/ \E c \in Conns : Read(c)
    \/ \E c \in Conns : Unregister(c)
    \/ \E c \in Conns : SenderStart(c)
    \/ \E c \in Conns : SenderWrite(c)

\* the capacity scenarios
SpecCap == InitCap /\ [][NextCap]_vars

NextPeer ==
    \/ Next
    \/ \E c \in Conns : Stall(c)
    \/ \E c \in Conns : Hangup(c)

\* the server with clients that stop reading or go away
SpecPeer == Init /\ [][NextPeer]_vars

\* ---------------------------------------------------------------------
\* Vocabulary of the properties
\* ---------------------------------------------------------------------
Range(q) == {q[i] : i \in 1..Len(q)}

\* the task holds ClientsLock and waits for it again at the top of
\* broadcast: sync.Mutex is not reentrant, the task never runs again
SelfDeadlocked(d) == ClientsLock = d /\ pc[d] = "rename_bc"

\* the step in which c's call of broadcast runs
BroadcastStep(c) == pc[c] \in BcPcs /\ pc'[c] = AfterBroadcast(pc[c])

\* the history as the replay formats it
FormatAll(ms) == [i \in 1..Len(ms) |-> ChatLine(ms[i].Client, ms[i].Content)]

\* the step in which the accept loop evaluates its capacity test
AcceptCheckStep == apc = "check" /\ apc' # "check"

\* a step of d's controller that writes to d's connection
ControllerWrites(d) == pc'[d] # pc[d] /\ wire'[d] # wire[d]

\* d's controller is inside a conn.Write that does not return
BlockedOnWrite(d) ==
    /\ ~CanWrite(d)
    /\ \/ pc[d] = "replaying" /\ ReplayLines # <<>>
       \/ pc[d] = "rename_taken"

IsPrefix(p, q) == Len(p) <= Len(q) /\ SubSeq(q, 1, Len(p)) = p

\* the kinds of line that reach a connection through broadcast
QueuedKinds == {"join", "leave", "rename", "chat"}

\* the place in the History Log of the chat line c is about to broadcast:
\* the last entry written under c's name
PendingIndex(c) ==
    CHOOSE i \in 1..Len(Messages) :
        /\ Messages[i].Client = cuser[c]
        /\ \A j \in (i + 1)..Len(Messages) : Messages[j].Client # cuser[c]

\* the number of History Log entries the replay wrote to d
Replayed(d) == IF ridx[d] > 0 THEN ridx[d] - 2 ELSE 0

\* "/name" followed only by blanks, as the read loop sees it after TrimSpace
BareNameCmd == TrimSpace(<<"/name", SP, SP>>)

\* ---------------------------------------------------------------------
\* C1 (as claimed): none of the first MaxClients connections is turned
\* away as "Server is full", and a connection accepted while MaxClients
\* sessions are registered is turned away and never served.
C1_CapacityAdmission ==
    \A c \in Conns :
        /\ (c <= MaxClients => pc[c] # "refused")
        /\ (fullAtAccept[c] => pc[c] = "refused")

\* C2 (as claimed): the Registry never holds more than MaxClients entries.
C2_RegistryWithinCapacity == Len_Clients <= MaxClients

C5_RenameCompletes == \A c \in Conns : ~SelfDeadlocked(c)

\* C6 (as claimed): of two sessions renaming to the same free name, the one
\* that comes second gets the "name taken" reply; it is never left waiting
\* for a lock the first one will not release.
C6_RenameLoserAnswered ==
    \A c, d \in Conns :
        (c # d /\ pc[d] = "rename" /\ cur[d] = cuser[c]) => ~SelfDeadlocked(c)

C8_ExitTerminates ==
    \A c \in Conns :
        (pc[c] = "unregister" /\ cur[c] = ExitCmd) =>
            ~(\E d \in Conns : SelfDeadlocked(d))

\* C9: a handshake whose name is in the Registry leaves the Registry as it
\* is, writes "Username already taken", closes the connection and ends the
\* controller; nothing is broadcast for it.
C9_DuplicateNameRejected ==
    [][\A c \in Conns :
          (pc[c] = "register" /\ pc'[c] # "register" /\ Exists(uname[c])) =>
              /\ Clients' = Clients
              /\ wire'[c] = wire[c] \o <<TakenLine>>
              /\ closed'[c]
              /\ pc'[c] = "done"
              /\ bmsg'[c] = NoMsg
              /\ held' = held
              /\ stask' = stask]_vars

\* c was turned away for a name that another session still holds
C9_Witness ==
    \E c \in Conns :
        /\ pc[c] = "done"
        /\ wire[c] = <<Logo, Prompt, TakenLine>>
        /\ Exists(uname[c])
        /\ Clients[uname[c]] # c

\* C10 (as claimed): Shutdown gets the Registry lock and closes every
\* registered connection; it is never left waiting for ClientsLock behind a
\* task that will not release it.
C10_ShutdownProceeds ==
    spc = "lock" => ~(\E d \in Conns : SelfDeadlocked(d))

\* C11 (as claimed): a call of broadcast always gets ClientsLock and
\* returns, from each of its four call sites: while a call is pending, a
\* session task that holds the lock is one that goes on to release it.
C11_BroadcastReturns ==
    \A c \in Conns :
        pc[c] \in BcPcs =>
            (ClientsLock \in Conns => pc[ClientsLock] = "rename_taken")

\* C12 (as claimed): a controller that writes to its connection holds
\* neither ClientsLock nor MsgLock in that step; this covers the replay of
\* the history and the inline replies of /name.
C12_NoWriteUnderLock ==
    [][\A c \in Conns :
          ControllerWrites(c) => (ClientsLock # c /\ MsgLock # c)]_vars

\* C13 (as claimed): a client that has stopped reading cannot hold up
\* another session: while another session has a chat line to append or to
\* broadcast, a task blocked writing to the stalled connection holds
\* neither lock.
C13_StalledClientHarmless ==
    \A c, d \in Conns :
        (c # d /\ pc[c] \in {"append", "chat_bc"} /\ BlockedOnWrite(d)) =>
            (MsgLock # d /\ ClientsLock # d)

\* C14 (as claimed): a session whose read has failed is removed from the
\* Registry, its leave notice is broadcast and its controller returns; it
\* is never left waiting for ClientsLock behind a task that will not
\* release it.
C14_ReadFailureUnregisters ==
    \A c \in Conns :
        (pc[c] = "unregister" /\ cur[c] # ExitCmd) =>
            ~(\E d \in Conns : SelfDeadlocked(d))

\* C15 (as claimed): the outbound task ends with its session.  A task that
\* waits on client.Out is woken only by a broadcast that finds its session
\* in the Registry (the channel is never closed), so once the controller
\* has returned the task is not waiting on the channel of a session that
\* no broadcast can reach.
C15_OutboundTaskEnds ==
    \A c \in Conns :
        (pc[c] = "done" /\ stask[c] = "recv") => c \in Registered

\* C16 (as claimed): after a failed write has ended the outbound task of a
\* registered session and the read side has seen the error too, the
\* session is unregistered; it is never left registered, waiting for
\* ClientsLock behind a task that will not release it.
C16_WriteFailureUnregisters ==
    \A c \in Conns :
        (stask[c] = "done" /\ c \in Registered /\ pc[c] = "unregister") =>
            ~(\E d \in Conns : SelfDeadlocked(d))

\* C17 (as claimed): every access to the Registry is made under
\* ClientsLock, the capacity test of the accept loop included: the test is
\* never evaluated while another task is inside its critical section.
C17_RegistryAccessLocked ==
    [][AcceptCheckStep => ClientsLock = NoLock]_vars

\* C18 (as claimed): a connection is turned away as "Server is full" only
\* if MaxClients sessions were registered at the moment it was accepted.
C18_RejectedOnlyWhenFull ==
    \A c \in Conns : pc[c] = "refused" => fullAtAccept[c]

\* C19: the outbound task of a session writes the messages in the order in
\* which the broadcast calls handed them over: what is on a connection is
\* never reordered, the task appends the message it holds to the end of it
\* (or drops it on a write error), and a broadcast hands a message over
\* only to a task that holds none.
C19_DeliveryFifo ==
    [][\A d \in Conns :
          /\ IsPrefix(wire[d], wire'[d])
          /\ (stask[d] = "write" /\ stask'[d] # "write") =>
                 wire'[d] \in {wire[d], wire[d] \o <<held[d]>>}
          /\ (held'[d] # held[d] /\ held'[d] # NoMsg) =>
                 /\ stask[d] = "recv"
                 /\ held[d] = NoMsg
                 /\ \E c \in Conns : BroadcastStep(c) /\ held'[d] = bmsg[c]]_vars

\* the outbound task of d has written two different messages, one after
\* the other
C19_Witness ==
    \E d \in Conns :
        /\ ridx[d] > 0
        /\ Len(wire[d]) >= ridx[d] + 2
        /\ wire[d][ridx[d] + 1].kind \in QueuedKinds
        /\ wire[d][ridx[d] + 2].kind \in QueuedKinds
        /\ wire[d][ridx[d] + 1] # wire[d][ridx[d] + 2]

\* C20 (as claimed): "/name" followed only by blanks is answered inline
\* and goes no further: it is never taken as a chat line, never appended
\* to the History Log and never handed to broadcast.
C20_EmptyRenameRejected ==
    /\ \A c \in Conns :
          /\ ~(pc[c] = "append" /\ cur[c] = BareNameCmd)
          /\ bmsg[c] # ChatLine(cuser[c], BareNameCmd)
    /\ \A i \in 1..Len(Messages) : Messages[i].Content # BareNameCmd

\* C21: a /name whose new name is in the Registry changes neither the
\* Registry nor any Username and hands nothing to broadcast; the session
\* gets the "name taken" line (unless its connection is already dead),
\* ClientsLock is released and the session is back in its read loop.
C21_RenameTakenNoEffect ==
    [][\A c \in Conns :
          /\ (pc[c] = "rename" /\ pc'[c] # "rename" /\ cur[c] \in DOMAIN Clients) =>
                 /\ pc'[c] = "rename_taken"
                 /\ Clients' = Clients /\ cuser' = cuser
                 /\ bmsg' = bmsg /\ held' = held
          /\ (pc[c] = "rename_taken" /\ pc'[c] # "rename_taken") =>
                 /\ pc'[c] = "read"
                 /\ ClientsLock = c /\ ClientsLock' = NoLock
                 /\ Clients' = Clients /\ cuser' = cuser
                 /\ bmsg' = bmsg /\ held' = held
                 /\ wire'[c] = IF ConnDead(c)
                               THEN wire[c]
                               ELSE wire[c] \o <<RenameTakenLine>>]_vars

\* c was told that the name is taken and has since sent a chat line under
\* its old name
C21_Witness ==
    \E c \in Conns :
        /\ RenameTakenLine \in Range(wire[c])
        /\ pc[c] = "chat_bc"
        /\ cuser[c] = uname[c]
        /\ Clients[cuser[c]] = c

\* C22: in every step the History Log stays as it is or gets one message
\* at its end, the line a session has just read with that session's
\* Username as author; the step that takes a chat line on appends exactly
\* one message.
C22_HistoryAppendOnly ==
    [][/\ \/ Messages' = Messages
          \/ \E c \in Conns :
                /\ pc[c] = "append" /\ pc'[c] = "chat_bc"
                /\ Messages' =
                       Append(Messages, [Client |-> cuser[c], Content |-> cur[c]])
       /\ \A c \in Conns :
             (pc[c] = "append" /\ pc'[c] # "append") =>
                 Len(Messages') = Len(Messages) + 1]_vars

\* two sessions have one message each in the History Log
C22_Witness ==
    /\ Len(Messages) = 2
    /\ Messages[1].Client # Messages[2].Client
    /\ Messages[1].Content = <<"hi">>

\* C23: every Registry entry's key is the Username of the session it maps
\* to, and no session is under two keys.  The critical sections are single
\* steps here, so this is stated for every state: whenever ClientsLock is
\* free, and also where a renaming session still holds it.
C23_RegistryConsistent ==
    /\ \A k \in DOMAIN Clients : cuser[Clients[k]] = k
    /\ \A k1, k2 \in DOMAIN Clients : Clients[k1] = Clients[k2] => k1 = k2

\* no task is in a critical section, two sessions are registered and one
\* of them has had a rename refused
C23_Witness ==
    /\ ClientsLock = NoLock
    /\ Len_Clients = 2
    /\ \E c \in Registered : RenameTakenLine \in Range(wire[c])

C25_NoDuplicateDelivery ==
    [][\A c, d \in Conns :
          (pc[c] = "chat_bc" /\ BroadcastStep(c) /\ held'[d] # held[d]) =>
              PendingIndex(c) > Replayed(d)]_vars

====
